---- MODULE Spec2Model ----
(***************************************************************************)
(* Loyalty extension service: bonus-points calculation, cart-handler       *)
(* update-action synthesis and order-handler points reconciliation.        *)
(*                                                                         *)
(* Numbers.  A JavaScript number that may carry a fraction (the award      *)
(* (cartTotal/100) * factor + addon) is kept in HUNDREDTHS of a point: the *)
(* model value h stands for the number h/100, so 510 points are 51000 and  *)
(* 1.5 points are 150.  Cart totals are integer cent amounts.  The totals  *)
(* drawn are multiples of 25 cents and factor/addon are integers, so       *)
(* cartTotal/100 is a dyadic rational and the double arithmetic of the     *)
(* source is exact on every input of the model.                            *)
(* Order points and customer balances (order path) are plain integers.     *)
(***************************************************************************)
EXTENDS Integers, Sequences, FiniteSets, TLC

VARIABLES
    calcTotal,      \* calculateBonusPoints: argument cartTotal (cents)
    calcTable,      \* calculateBonusPoints: Object.entries(customObject), in iteration order
    calcBy,         \* which copy of calculateBonusPoints ran: "none", "service", "cart"
    calcResult,     \* its return value, in hundredths of a point
    variant,        \* the cart handler deployed: "service" (service.controller.ts) or "cart" (cart.controller.ts)
    cart,           \* the cart on the platform: customerId, totalPrice, customLineItems, custom
    customObjects,  \* customObjects(container: "schemas").results
    customer,       \* the customer on the platform, <<>> when there is none
    nextLineItemId, \* the id the platform gives the next custom line item
    deliveries,     \* webhook deliveries handled so far
    seen,           \* the handler's locals in the last delivery
    resp,           \* what the last delivery returned or threw
    handlers,       \* order handler invocations: position, order, locals, outcome
    customerWrites, \* update requests issued against the customer resource, in order
    orderEvents     \* order events received so far

calcVars == <<calcTotal, calcTable, calcBy, calcResult>>

cartVars == <<variant, cart, customObjects, customer, nextLineItemId, deliveries, seen, resp>>

cartOnlyVars == <<variant, cart, customObjects, nextLineItemId, deliveries, seen, resp>>

orderVars == <<handlers, customerWrites, orderEvents>>

vars == <<calcTotal, calcTable, calcBy, calcResult,
          variant, cart, customObjects, customer, nextLineItemId, deliveries, seen, resp,
          handlers, customerWrites, orderEvents>>

-----------------------------------------------------------------------------
(* Bounds *)

MaxTiers == 2          \* tier blocks in a rate table
MaxTotalSteps == 7     \* cart totals are 0, 25, ..., 25 * MaxTotalSteps cents
MaxDeliveries == 2     \* webhook deliveries in one behaviour
NumHandlers == 2       \* order handler invocations that may overlap
MaxOrderEvents == 2    \* order events in one behaviour

-----------------------------------------------------------------------------
(* Rate table: interface cartValues *)

cartValues ==
    [minCartValue : {0, 100}, maxCartValue : {50, 150}, factor : {1, 3}, addon : {0, 1}]

RECURSIVE SeqsUpTo(_, _)
SeqsUpTo(S, n) ==
    IF n = 0 THEN {<<>>}
    ELSE LET shorter == SeqsUpTo(S, n - 1)
         IN  shorter \cup {Append(s, x) : s \in {t \in shorter : Len(t) = n - 1}, x \in S}

RateTables == SeqsUpTo(cartValues, MaxTiers)

CartTotals == {25 * k : k \in 0..MaxTotalSteps}

\* Math.round(h/100), result again in hundredths: the nearest integer, a tie
\* going towards +Infinity.
MathRound(h) == ((h + 50) \div 100) * 100

\* (cartTotal/100) * factor + addon, in hundredths
rawAward(cartTotal, block) == cartTotal * block.factor + 100 * block.addon

\* Mutant: the range test forgets the upper limit of the tier.
inTier_noUpper(cartTotal, block) ==
    cartTotal >= block.minCartValue

\* if (cartTotal >= minCartValue && cartTotal <= maxCartValue)
inTier(cartTotal, block) ==
    cartTotal >= block.minCartValue /\ cartTotal <= block.maxCartValue

\* service.controller.ts: forEach over the blocks, each match overwrites earnedPoints
RECURSIVE forEachBlock(_, _, _)
forEachBlock(cartTotal, blocks, earnedPoints) ==
    IF blocks = <<>> THEN earnedPoints
    ELSE forEachBlock(cartTotal, Tail(blocks),
                      IF inTier(cartTotal, Head(blocks))
                      THEN MathRound(rawAward(cartTotal, Head(blocks)))
                      ELSE earnedPoints)

\* Mutant: the first matching tier wins (the loop stops at the first match).
RECURSIVE firstMatchWins(_, _)
firstMatchWins(cartTotal, blocks) ==
    IF blocks = <<>> THEN 0
    ELSE IF inTier(cartTotal, Head(blocks))
         THEN MathRound(rawAward(cartTotal, Head(blocks)))
         ELSE firstMatchWins(cartTotal, Tail(blocks))

calculateBonusPoints(cartTotal, customObject) ==
    forEachBlock(cartTotal, customObject, 0)

\* cart.controller.ts: the same loop, the award is not rounded
RECURSIVE forEachBlock_cart(_, _, _)
forEachBlock_cart(cartTotal, blocks, earnedPoints) ==
    IF blocks = <<>> THEN earnedPoints
    ELSE forEachBlock_cart(cartTotal, Tail(blocks),
                           IF inTier(cartTotal, Head(blocks))
                           THEN rawAward(cartTotal, Head(blocks))
                           ELSE earnedPoints)

calculateBonusPoints_cart(cartTotal, customObject) ==
    forEachBlock_cart(cartTotal, customObject, 0)

-----------------------------------------------------------------------------
(* Values shared by the handlers *)

\* an absent value (null / undefined) is the empty sequence, a present one <<v>>
None == <<>>
Some(v) == <<v>>

\* String(n) of a non-negative number kept in hundredths: "4", "5.5", "0.25"
NumberToString(h) ==
    IF h % 100 = 0 THEN ToString(h \div 100)
    ELSE ToString(h \div 100) \o "." \o
         (IF (h % 100) % 10 = 0 THEN ToString((h % 100) \div 10)
          ELSE (IF h % 100 < 10 THEN "0" ELSE "") \o ToString(h % 100))

\* String.prototype.startsWith
startsWith(str, prefix) ==
    Len(str) >= Len(prefix) /\ SubSeq(str, 1, Len(prefix)) = prefix

\* return { statusCode, actions }
Returned(statusCode, actions) ==
    [kind |-> "returned", statusCode |-> statusCode, actions |-> actions, error |-> ""]

\* throw: a CustomError carries its statusCode; a TypeError raised by reading a
\* property of null / undefined carries none (statusCode 0 here)
Thrown(name, statusCode) ==
    [kind |-> "thrown", statusCode |-> statusCode, actions |-> <<>>, error |-> name]

NoResp == [kind |-> "none", statusCode |-> 0, actions |-> <<>>, error |-> ""]

\* what update hands back to the model: its outcome and its local earnedPoints
\* (None when the handler left before computing it)
Outcome(r, earnedPoints) == [resp |-> r, earnedPoints |-> earnedPoints]

-----------------------------------------------------------------------------
(* Cart handler: update-action synthesis *)

removeCustomLineItem(item) ==
    [action |-> "removeCustomLineItem", customLineItemId |-> item.id]

addCustomLineItem(earnedPoints, currencyCode, slug) ==
    [action |-> "addCustomLineItem",
     name |-> [EN |-> "Bonus points earned " \o NumberToString(earnedPoints),
               DE |-> "Bonus Punkte erhalten " \o NumberToString(earnedPoints)],
     money |-> [centAmount |-> 0, currencyCode |-> currencyCode],
     slug |-> slug,
     taxCategory |-> [typeId |-> "tax-category", key |-> "standard-tax"],
     quantity |-> 1]

setCustomType(points) ==
    [action |-> "setCustomType",
     type |-> [key |-> "tt-loyalty-extension", typeId |-> "type"],
     fields |-> [points |-> points]]

\* Mutant: the existing line item is looked up by the fixed slug although the
\* slug written embeds the point count.
RECURSIVE existingBonusLineItem_exact(_)
existingBonusLineItem_exact(items) ==
    IF items = <<>> THEN None
    ELSE IF Head(items).slug = "bonus-points-earned" THEN Some(Head(items))
         ELSE existingBonusLineItem_exact(Tail(items))

\* service.controller.ts: customLineItems.find(item => item.slug?.startsWith("bonus-points-earned"))
RECURSIVE findStartsWith(_)
findStartsWith(items) ==
    IF items = <<>> THEN None
    ELSE IF startsWith(Head(items).slug, "bonus-points-earned") THEN Some(Head(items))
         ELSE findStartsWith(Tail(items))

existingBonusLineItem(items) == findStartsWith(items)

\* cart.controller.ts: customLineItems.find(item => item.slug === "bonus-points-earned")
RECURSIVE existingBonusLineItem_cart(_)
existingBonusLineItem_cart(items) ==
    IF items = <<>> THEN None
    ELSE IF Head(items).slug = "bonus-points-earned" THEN Some(Head(items))
         ELSE existingBonusLineItem_cart(Tail(items))

\* Mutant: the removal is pushed after the other two actions.
updateActions_removeLast(existing, earnedPoints, currencyCode) ==
    <<addCustomLineItem(earnedPoints, currencyCode,
                        "bonus-points-earned-" \o NumberToString(earnedPoints)),
      setCustomType(earnedPoints)>>
    \o (IF existing = None THEN <<>> ELSE <<removeCustomLineItem(existing[1])>>)

\* service.controller.ts: the three pushes onto updateActions
updateActions(existing, earnedPoints, currencyCode) ==
    (IF existing = None THEN <<>> ELSE <<removeCustomLineItem(existing[1])>>)
    \o <<addCustomLineItem(earnedPoints, currencyCode,
                           "bonus-points-earned-" \o NumberToString(earnedPoints)),
         setCustomType(earnedPoints)>>

\* cart.controller.ts: the three pushes onto updateActions
updateActions_cart(existing, earnedPoints, currencyCode) ==
    (IF existing = None THEN <<>> ELSE <<removeCustomLineItem(existing[1])>>)
    \o <<addCustomLineItem(earnedPoints, currencyCode, "bonus-points-earned"),
         setCustomType(earnedPoints)>>

\* service.controller.ts update(cart); data is graphQLResponse.body.data
update(cartResource, data) ==
    IF data.customObjects = <<>>
    THEN Outcome(Thrown("TypeError", 0), None)            \* results[0].value
    ELSE LET customObject == data.customObjects[1].value
             cartTotal == IF data.cart = None THEN 0      \* cart?.totalPrice?.centAmount ?? 0
                          ELSE data.cart[1].totalPrice.centAmount
         IN  IF cartTotal = 0
             THEN Outcome(Returned(201, <<>>), None)
             ELSE LET earnedPoints == calculateBonusPoints(cartTotal, customObject)
                  IN  Outcome(
                        Returned(201,
                          updateActions(existingBonusLineItem(data.cart[1].customLineItems),
                                        earnedPoints,
                                        cartResource.totalPrice.currencyCode)),
                        Some(earnedPoints))

\* cart.controller.ts update(cart)
update_cart(cartResource, data) ==
    IF cartResource.customerId = None
    THEN Outcome(Returned(201, <<>>), None)
    ELSE IF data.customObjects = <<>>
    THEN Outcome(Thrown("TypeError", 0), None)            \* results[0].value
    ELSE IF data.cart = None
    THEN Outcome(Thrown("TypeError", 0), None)            \* cart.totalPrice
    ELSE IF \/ data.customer = None                       \* customer.custom
            \/ data.customer[1].custom = None             \* custom.customFieldsRaw
            \/ data.customer[1].custom[1].customFieldsRaw = <<>>   \* customFieldsRaw[0].value
    THEN Outcome(Thrown("TypeError", 0), None)
    ELSE LET customObject == data.customObjects[1].value
             cartTotal == data.cart[1].totalPrice.centAmount
             earnedPoints == calculateBonusPoints_cart(cartTotal, customObject)
         IN  Outcome(
               Returned(201,
                 updateActions_cart(existingBonusLineItem_cart(data.cart[1].customLineItems),
                                    earnedPoints,
                                    cartResource.totalPrice.currencyCode)),
               Some(earnedPoints))

\* service.controller.ts cartController(action, resource)
cartController(action, resource, data) ==
    IF action \in {"Create", "Update"} THEN update(resource, data)
    ELSE Outcome(Thrown("InvalidOperation", 400), None)

\* cart.controller.ts cartController(action, resource)
cartController_cart(action, resource, data) ==
    IF action \in {"Create", "Update"} THEN update_cart(resource, data)
    ELSE Outcome(Thrown("InvalidOperation", 400), None)

\* service.controller.ts, third copy: calculateBonusPoints(cart) with its
\* checks of the GraphQL answer; transport is "ok", "errors" (body.errors set)
\* or "status" (statusCode !== 200)
calculateBonusPoints_typed(cartResource, data) ==
    IF cartResource.customerId = None
    THEN Outcome(NoResp, Some(0))
    ELSE IF data.transport = "errors" THEN Outcome(Thrown("GraphQLQueryFailed", 500), None)
    ELSE IF data.transport = "status" THEN Outcome(Thrown("GraphQLQueryFailed", 500), None)
    ELSE IF data.cart = None THEN Outcome(Thrown("CartNotFound", 404), None)
    ELSE IF data.customer = None THEN Outcome(Thrown("CustomerNotFound", 404), None)
    ELSE IF data.customObjects = <<>> THEN Outcome(Thrown("CustomObjectNotFound", 404), None)
    ELSE IF \/ data.customer[1].custom = None                       \* custom.customFieldsRaw
            \/ data.customer[1].custom[1].customFieldsRaw = <<>>    \* customFieldsRaw[0].value
    THEN Outcome(Thrown("TypeError", 0), None)
    ELSE Outcome(NoResp,
                 Some(forEachBlock_cart(data.cart[1].totalPrice.centAmount,
                                        data.customObjects[1].value, 0)))

\* service.controller.ts, third copy: update(cart) pushes the one addCustomLineItem
update_typed(cartResource, data) ==
    LET earned == calculateBonusPoints_typed(cartResource, data)
    IN  IF earned.earnedPoints = None THEN earned
        ELSE Outcome(Returned(201, <<addCustomLineItem(earned.earnedPoints[1],
                                                       cartResource.totalPrice.currencyCode,
                                                       "bonus-points-earned")>>),
                     earned.earnedPoints)

\* service.controller.ts, third copy: cartController(action, resource)
cartController_typed(action, resource, data) ==
    IF action \in {"Create", "Update"} THEN update_typed(resource, data)
    ELSE Outcome(Thrown("InvalidOperation", 400), None)

-----------------------------------------------------------------------------
(* Order handler: points reconciliation *)

Handlers == 1..NumHandlers

\* customFieldsRaw.find(field => field.name === 'points')
RECURSIVE pointsField(_)
pointsField(customFieldsRaw) ==
    IF customFieldsRaw = <<>> THEN None
    ELSE IF Head(customFieldsRaw).name = "points" THEN Some(Head(customFieldsRaw))
         ELSE pointsField(Tail(customFieldsRaw))

\* Mutant: the raw order points are written, the stored balance is not added.
totalPoints_raw(points, oldPoints) == points

\* const totalPoints = points + oldPoints
totalPoints(points, oldPoints) == points + oldPoints

\* the update request body's actions
customerUpdateActions(total) ==
    <<[action |-> "setCustomType",
       type |-> [key |-> "tt-loyalty-extension", typeId |-> "type"],
       fields |-> [points |-> total]]>>

\* Mutant: the handler hands the update actions back in its answer.
afterPost_returnActions(actions) == Returned(201, actions)

\* return { statusCode: 201, actions: [] } after the customer update
afterPost(actions) == Returned(201, <<>>)

\* Mutant: a customer without a points field is skipped whether or not any
\* custom field is set.
readOldPoints_noLengthTest(custom) ==
    LET raw == IF custom = None THEN <<>> ELSE custom[1].customFieldsRaw
    IN  IF pointsField(raw) = None THEN None
        ELSE Some(pointsField(raw)[1].value)

\* let oldPoints = 0; if (custom?.customFieldsRaw?.length > 0) {...}: the value
\* of oldPoints, or None when the handler returns for want of a points field
readOldPoints(custom) ==
    LET raw == IF custom = None THEN <<>> ELSE custom[1].customFieldsRaw
    IN  IF Len(raw) > 0
        THEN IF pointsField(raw) = None THEN None
             ELSE Some(pointsField(raw)[1].value)       \* pointsField.value || 0
        ELSE Some(0)

\* update(order) without the customerId check of lines 18-21
updateRead_noCustomerCheck(order, dataCustomer) ==
    LET stop(r) == [go |-> FALSE, resp |-> r, version |-> 0, total |-> 0, read |-> FALSE]
        stopRead(r) == [go |-> FALSE, resp |-> r, version |-> 0, total |-> 0, read |-> TRUE]
    IN
    IF order.points = None \/ order.points[1] = 0 THEN stop(Returned(201, <<>>))
    ELSE IF order.points[1] <= 0 THEN stop(Returned(201, <<>>))
    ELSE IF dataCustomer = None THEN stopRead(Thrown("TypeError", 0))
    ELSE LET oldPoints == readOldPoints(dataCustomer[1].custom)
         IN  IF oldPoints = None
             THEN stopRead(Returned(201, <<>>))
             ELSE [go |-> TRUE, resp |-> NoResp,
                   version |-> dataCustomer[1].version,
                   total |-> totalPoints(order.points[1], oldPoints[1]),
                   read |-> TRUE]

\* update(order) up to the answer of the GraphQL read; dataCustomer is
\* graphQLResponse.body.data.customer.  go: the handler goes on to the update
\* request with version and total; otherwise resp is its outcome.
updateRead(order, dataCustomer) ==
    LET stop(r) == [go |-> FALSE, resp |-> r, version |-> 0, total |-> 0, read |-> FALSE]
        stopRead(r) == [go |-> FALSE, resp |-> r, version |-> 0, total |-> 0, read |-> TRUE]
    IN
    IF order.customerId = None THEN stop(Returned(201, <<>>))
    ELSE IF order.points = None \/ order.points[1] = 0 THEN stop(Returned(201, <<>>))
    ELSE IF order.points[1] <= 0 THEN stop(Returned(201, <<>>))
    ELSE IF dataCustomer = None THEN stopRead(Thrown("TypeError", 0))     \* customer.custom
    ELSE LET oldPoints == readOldPoints(dataCustomer[1].custom)
         IN  IF oldPoints = None
             THEN stopRead(Returned(201, <<>>))
             ELSE [go |-> TRUE, resp |-> NoResp,
                   version |-> dataCustomer[1].version,
                   total |-> totalPoints(order.points[1], oldPoints[1]),
                   read |-> TRUE]

\* orderController handling the Create action only
orderController_createOnly(action, resource, dataCustomer) ==
    IF action = "Create" THEN updateRead(resource, dataCustomer)
    ELSE IF action = "Update"
    THEN [go |-> FALSE, resp |-> Returned(201, <<>>), version |-> 0, total |-> 0, read |-> FALSE]
    ELSE [go |-> FALSE, resp |-> Thrown("InvalidOperation", 400), version |-> 0, total |-> 0,
          read |-> FALSE]

\* order.controller.ts orderController(action, resource)
orderController(action, resource, dataCustomer) ==
    IF action \in {"Create", "Update"} THEN updateRead(resource, dataCustomer)
    ELSE [go |-> FALSE, resp |-> Thrown("InvalidOperation", 400), version |-> 0, total |-> 0,
          read |-> FALSE]

NoOrder == [customerId |-> None, points |-> None]

IdleHandler ==
    [pc |-> "idle", action |-> "", order |-> NoOrder, read |-> FALSE, seenCustomer |-> None,
     go |-> FALSE, version |-> 0, total |-> 0, resp |-> NoResp]

OrderIdle ==
    /\ handlers = [h \in Handlers |-> IdleHandler]
    /\ customerWrites = <<>>
    /\ orderEvents = 0

-----------------------------------------------------------------------------
(* The platform around the cart handler *)

\* the answer to the handler's GraphQL query; cart None when cart(id) is null
graphQLCartData(found) ==
    [cart |-> IF found
              THEN Some([customLineItems |-> cart.customLineItems,
                         totalPrice |-> cart.totalPrice])
              ELSE None,
     customer |-> customer,
     customObjects |-> customObjects]

\* one update action applied to the cart; st = [cart, nextId]
applyAction(st, a) ==
    CASE a.action = "removeCustomLineItem" ->
           [st EXCEPT !.cart.customLineItems =
                SelectSeq(@, LAMBDA item : item.id # a.customLineItemId)]
      [] a.action = "addCustomLineItem" ->
           [cart |-> [st.cart EXCEPT !.customLineItems =
                        Append(@, [id |-> st.nextId, slug |-> a.slug])],
            nextId |-> st.nextId + 1]
      [] a.action = "setCustomType" ->
           [st EXCEPT !.cart.custom = Some([type |-> a.type.key, points |-> a.fields.points])]

\* the returned actions applied in array order
RECURSIVE applyActions(_, _)
applyActions(st, actions) ==
    IF actions = <<>> THEN st
    ELSE applyActions(applyAction(st, Head(actions)), Tail(actions))

WebhookActions == {"Create", "Update", "Delete"}

TierA == [minCartValue |-> 0, maxCartValue |-> 50, factor |-> 1, addon |-> 0]
TierB == [minCartValue |-> 100, maxCartValue |-> 150, factor |-> 3, addon |-> 1]

\* rate tables and totals of the handler specifications: awards 0 (total 0 and
\* total 75, no tier), 0.25, 4 and 5.5 points
HandlerTables == {<<>>, <<TierA, TierB>>}
HandlerTotals == {0, 25, 75, 100, 150}

\* the bonus slug each handler writes (the fixed slug, or one embedding p points)
WrittenSlugs(v) ==
    IF v \in {"cart", "typed"} THEN {"bonus-points-earned"}
    ELSE {"bonus-points-earned-" \o NumberToString(100 * p) : p \in {0, 4}}

\* custom line items of a cart before the first delivery: at most one bonus item
InitialLineItems(v) ==
    {<<>>, <<[id |-> 1, slug |-> "gift-wrap"]>>}
    \cup {<<[id |-> 1, slug |-> s]>> : s \in WrittenSlugs(v)}
    \cup {<<[id |-> 1, slug |-> "gift-wrap"], [id |-> 2, slug |-> s]>> : s \in WrittenSlugs(v)}

\* customers as the cart handler of cart.controller.ts reads them
CartCustomers ==
    {None,
     Some([version |-> 1, custom |-> None]),
     Some([version |-> 1, custom |-> Some([type |-> "tt-loyalty-extension", customFieldsRaw |-> <<>>])]),
     Some([version |-> 1, custom |-> Some([type |-> "tt-loyalty-extension",
                                           customFieldsRaw |-> <<[name |-> "points", value |-> 0]>>])])}

NoSeen == [action |-> "", data |-> [cart |-> None, customer |-> None, customObjects |-> <<>>],
           earnedPoints |-> None]

CalcIdle ==
    /\ calcTotal = 0
    /\ calcTable = <<>>
    /\ calcBy = "idle"
    /\ calcResult = 0

CartIdle ==
    /\ variant = "none"
    /\ cart = [customerId |-> None, totalPrice |-> [currencyCode |-> "EUR", centAmount |-> 0],
               customLineItems |-> <<>>, custom |-> None]
    /\ customObjects = <<>>
    /\ nextLineItemId = 1
    /\ deliveries = 0
    /\ seen = NoSeen
    /\ resp = NoResp

CartInit ==
    /\ CalcIdle
    /\ variant \in {"service", "cart"}
    /\ customObjects \in {<<>>} \cup {<<[key |-> "tiers", value |-> t]>> : t \in HandlerTables}
    /\ customer \in (IF variant = "cart" THEN CartCustomers ELSE {None})
    /\ \E cid \in {None, Some("customer-1")}, t \in HandlerTotals, items \in InitialLineItems(variant) :
          /\ cart = [customerId |-> cid,
                     totalPrice |-> [currencyCode |-> "EUR", centAmount |-> t],
                     customLineItems |-> items,
                     custom |-> None]
          /\ nextLineItemId = Len(items) + 1
    /\ deliveries = 0
    /\ seen = NoSeen
    /\ resp = NoResp
    /\ OrderIdle

\* post(): a 200/201 answer hands data.actions to the platform, which applies
\* them to the cart in array order; a thrown error changes nothing
Delivered(action, data, outcome) ==
    LET st == IF outcome.resp.kind = "returned"
              THEN applyActions([cart |-> cart, nextId |-> nextLineItemId], outcome.resp.actions)
              ELSE [cart |-> cart, nextId |-> nextLineItemId]
    IN  /\ cart' = st.cart
        /\ nextLineItemId' = st.nextId
        /\ resp' = outcome.resp
        /\ seen' = [action |-> action, data |-> data, earnedPoints |-> outcome.earnedPoints]
        /\ deliveries' = deliveries + 1
        /\ UNCHANGED <<variant, customObjects, customer>>

\* a cart event delivered to the handler of service.controller.ts
DeliverService ==
    /\ variant = "service"
    /\ deliveries < MaxDeliveries
    /\ \E action \in WebhookActions, found \in BOOLEAN :
          Delivered(action, graphQLCartData(found),
                    cartController(action, cart, graphQLCartData(found)))
    /\ UNCHANGED calcVars
    /\ UNCHANGED orderVars

\* a cart event delivered to the handler of cart.controller.ts
DeliverCart ==
    /\ variant = "cart"
    /\ deliveries < MaxDeliveries
    /\ \E action \in WebhookActions, found \in BOOLEAN :
          Delivered(action, graphQLCartData(found),
                    cartController_cart(action, cart, graphQLCartData(found)))
    /\ UNCHANGED calcVars
    /\ UNCHANGED orderVars

\* the shopper changes the cart: its total becomes another amount
ShopperChangesCart ==
    /\ deliveries < MaxDeliveries
    /\ \E t \in HandlerTotals \ {cart.totalPrice.centAmount} :
          cart' = [cart EXCEPT !.totalPrice.centAmount = t]
    /\ UNCHANGED <<variant, customObjects, customer, nextLineItemId, deliveries, seen, resp>>
    /\ UNCHANGED calcVars
    /\ UNCHANGED orderVars

CartNext == DeliverService \/ DeliverCart \/ ShopperChangesCart

SpecCart == CartInit /\ [][CartNext]_vars

-----------------------------------------------------------------------------
(* SpecCartTyped: cart events handled by the third copy of the cart handler *)

graphQLTypedData(found, transport) ==
    [cart |-> IF found THEN Some([totalPrice |-> cart.totalPrice]) ELSE None,
     customer |-> customer,
     customObjects |-> customObjects,
     transport |-> transport]

CartTypedInit ==
    /\ CalcIdle
    /\ variant = "typed"
    /\ customObjects \in {<<>>} \cup {<<[key |-> "tiers", value |-> t]>> : t \in HandlerTables}
    /\ customer \in CartCustomers
    /\ \E cid \in {None, Some("customer-1")}, t \in HandlerTotals, items \in InitialLineItems(variant) :
          /\ cart = [customerId |-> cid,
                     totalPrice |-> [currencyCode |-> "EUR", centAmount |-> t],
                     customLineItems |-> items,
                     custom |-> None]
          /\ nextLineItemId = Len(items) + 1
    /\ deliveries = 0
    /\ seen = NoSeen
    /\ resp = NoResp
    /\ OrderIdle

\* a cart event delivered to the third copy
DeliverTyped ==
    /\ variant = "typed"
    /\ deliveries < MaxDeliveries
    /\ \E action \in WebhookActions, found \in BOOLEAN, transport \in {"ok", "errors", "status"} :
          Delivered(action, graphQLTypedData(found, transport),
                    cartController_typed(action, cart, graphQLTypedData(found, transport)))
    /\ UNCHANGED calcVars
    /\ UNCHANGED orderVars

CartTypedNext == DeliverTyped \/ ShopperChangesCart

SpecCartTyped == CartTypedInit /\ [][CartTypedNext]_vars

-----------------------------------------------------------------------------
(* SpecOrder: order events handled by overlapping invocations *)

Orders ==
    {[customerId |-> None, points |-> Some(1)]}
    \cup {[customerId |-> Some("customer-1"), points |-> pts] :
            pts \in {None, Some(-1), Some(0), Some(1), Some(2)}}

LoyaltyCustom(raw) == Some([type |-> "tt-loyalty-extension", customFieldsRaw |-> raw])

\* customers as the order handler reads them: none, no custom type, the loyalty
\* type with no field set, with a balance, another type, other fields and a balance
OrderCustomers ==
    {None,
     Some([version |-> 1, custom |-> None]),
     Some([version |-> 1, custom |-> LoyaltyCustom(<<>>)]),
     Some([version |-> 1, custom |-> LoyaltyCustom(<<[name |-> "points", value |-> 0]>>)]),
     Some([version |-> 1, custom |-> LoyaltyCustom(<<[name |-> "points", value |-> 3]>>)]),
     Some([version |-> 1, custom |-> Some([type |-> "other-type",
                                           customFieldsRaw |-> <<[name |-> "level", value |-> 1]>>])]),
     Some([version |-> 1, custom |-> LoyaltyCustom(<<[name |-> "level", value |-> 1],
                                                     [name |-> "points", value |-> 3]>>)])}

OrderInit ==
    /\ CalcIdle
    /\ CartIdle
    /\ customer \in OrderCustomers
    /\ handlers = [h \in Handlers |-> IdleHandler]
    /\ customerWrites = <<>>
    /\ orderEvents = 0

\* an order event reaches a free invocation: orderController, the checks of
\* update and its GraphQL read of the customer
OrderRead(h) ==
    /\ handlers[h].pc \in {"idle", "done"}
    /\ orderEvents < MaxOrderEvents
    /\ \E action \in WebhookActions, order \in Orders :
          LET r == orderController(action, order, customer)
          IN  handlers' = [handlers EXCEPT ![h] =
                  [pc |-> IF r.go THEN "post" ELSE "done",
                   action |-> action,
                   order |-> order,
                   read |-> r.read,
                   seenCustomer |-> IF r.read THEN customer ELSE None,
                   go |-> r.go,
                   version |-> r.version,
                   total |-> r.total,
                   resp |-> r.resp]]
    /\ orderEvents' = orderEvents + 1
    /\ UNCHANGED <<customer, customerWrites>>
    /\ UNCHANGED calcVars
    /\ UNCHANGED cartOnlyVars

\* the platform's answer to the update request: applied when the version is the
\* customer's current one, rejected (409) otherwise
versionMatches(version) == customer # None /\ customer[1].version = version

\* the update request carries the customer's current version, whatever was read
postVersion_current(h) == customer[1].version

\* version: graphQLResponse.body.data.customer.version, the version invocation h read
postVersion(h) == handlers[h].version

\* apiRoot.customers().withId().post({version, actions}) and the return after it
OrderPost(h) ==
    /\ handlers[h].pc = "post"
    /\ LET actions == customerUpdateActions(handlers[h].total)
           accepted == versionMatches(postVersion(h))
       IN  /\ customerWrites' = Append(customerWrites,
                   [handler |-> h, version |-> postVersion(h), actions |-> actions,
                    accepted |-> accepted, order |-> handlers[h].order,
                    action |-> handlers[h].action,
                    seenCustomer |-> handlers[h].seenCustomer, before |-> customer])
           /\ customer' = IF accepted
                          THEN Some([version |-> customer[1].version + 1,
                                     custom |-> Some([type |-> actions[1].type.key,
                                                      customFieldsRaw |->
                                                         <<[name |-> "points",
                                                            value |-> actions[1].fields.points]>>])])
                          ELSE customer
           /\ handlers' = [handlers EXCEPT ![h].pc = "done",
                                           ![h].resp = IF accepted THEN afterPost(actions)
                                                       ELSE Thrown("ConcurrentModification", 409)]
    /\ UNCHANGED orderEvents
    /\ UNCHANGED calcVars
    /\ UNCHANGED cartOnlyVars

OrderNext == \E h \in Handlers : OrderRead(h) \/ OrderPost(h)

SpecOrder == OrderInit /\ [][OrderNext]_vars

-----------------------------------------------------------------------------
(* SpecCalc: calculateBonusPoints applied to every total and rate table *)

CalcInit ==
    /\ calcTotal \in CartTotals
    /\ calcTable \in RateTables
    /\ calcBy = "none"
    /\ calcResult = 0
    /\ CartIdle
    /\ customer = None
    /\ OrderIdle

CalcService ==
    /\ calcBy = "none"
    /\ calcBy' = "service"
    /\ calcResult' = calculateBonusPoints(calcTotal, calcTable)
    /\ UNCHANGED <<calcTotal, calcTable>>
    /\ UNCHANGED cartVars
    /\ UNCHANGED orderVars

CalcCart ==
    /\ calcBy = "none"
    /\ calcBy' = "cart"
    /\ calcResult' = calculateBonusPoints_cart(calcTotal, calcTable)
    /\ UNCHANGED <<calcTotal, calcTable>>
    /\ UNCHANGED cartVars
    /\ UNCHANGED orderVars

CalcNext == CalcService \/ CalcCart

SpecCalc == CalcInit /\ [][CalcNext]_vars

-----------------------------------------------------------------------------
(* Claims about calculateBonusPoints *)

\* the tiers whose closed range [minCartValue, maxCartValue] holds the total
MatchingIndexes ==
    {i \in 1..Len(calcTable) :
        calcTable[i].minCartValue <= calcTotal /\ calcTotal <= calcTable[i].maxCartValue}

\* r (hundredths) is the integer nearest to h/100, ties upwards
IsRoundOf(r, h) == r % 100 = 0 /\ r - 50 <= h /\ h < r + 50

\* t/100 * factor + addon of tier i, as an exact rational in hundredths
ExactAward(i) == calcTotal * calcTable[i].factor + 100 * calcTable[i].addon

\* C1: whenever exactly one tier matches the total, the value returned by
\* calculateBonusPoints (either copy) is round(t/100 * factor + addon) of that
\* tier: an integer, rounded once after the whole expression.
C1_RoundedAward ==
    (calcBy # "none" /\ Cardinality(MatchingIndexes) = 1)
        => \A i \in MatchingIndexes : IsRoundOf(calcResult, ExactAward(i))

\* The copy in service.controller.ts does satisfy C1.
C1_ServiceCopyRounds ==
    (calcBy = "service" /\ Cardinality(MatchingIndexes) = 1)
        => \A i \in MatchingIndexes : IsRoundOf(calcResult, ExactAward(i))

LastMatching == CHOOSE i \in MatchingIndexes : \A j \in MatchingIndexes : j <= i

\* the award of tier i as the copy that ran computes it
AwardBy(i) ==
    IF calcBy = "service"
    THEN CHOOSE r \in {100 * k : k \in 0..(ExactAward(i) \div 100 + 1)} : IsRoundOf(r, ExactAward(i))
    ELSE ExactAward(i)

\* C2: when two or more tiers match the total, the result is the award of the
\* last matching tier in iteration order.
C2_LastMatchingTierWins ==
    (calcBy # "none" /\ Cardinality(MatchingIndexes) >= 2)
        => calcResult = AwardBy(LastMatching)

C2_Witness ==
    /\ calcBy # "none"
    /\ Cardinality(MatchingIndexes) >= 2
    /\ calcResult = AwardBy(LastMatching)
    /\ \E i \in MatchingIndexes : i < LastMatching /\ AwardBy(i) # calcResult

\* C3: when no tier matches the total (an empty table included), the result is 0.
C3_NoMatchIsZero ==
    (calcBy # "none" /\ MatchingIndexes = {}) => calcResult = 0

C3_Witness ==
    /\ calcBy # "none"
    /\ calcTable # <<>>
    /\ calcTotal > 0
    /\ MatchingIndexes = {}
    /\ calcResult = 0

C3_WitnessEmptyTable ==
    calcBy # "none" /\ calcTable = <<>> /\ calcResult = 0

-----------------------------------------------------------------------------
(* Claims about the cart handler *)

\* a bonus-points line item: its slug begins with the bonus slug
IsBonusLineItem(item) == startsWith(item.slug, "bonus-points-earned")

BonusLineItemIds(items) == {items[i].id : i \in {j \in 1..Len(items) : IsBonusLineItem(items[j])}}

LineItemIds(items) == {items[i].id : i \in 1..Len(items)}

\* the last delivery ran update to the end and returned its action batch
AwardReturned == seen.earnedPoints # None

\* C4: after any sequence of cart deliveries, each one's actions applied in
\* array order, the cart holds at most one bonus-points line item; a pass that
\* found a bonus-points line item has removed it.
C4_AtMostOneBonusLineItem ==
    /\ Cardinality(BonusLineItemIds(cart.customLineItems)) <= 1
    /\ AwardReturned =>
          /\ BonusLineItemIds(seen.data.cart[1].customLineItems)
                \cap LineItemIds(cart.customLineItems) = {}
          /\ Cardinality(BonusLineItemIds(cart.customLineItems)) = 1

\* the second pass removed the line item the first pass had added for 6 points
C4_Witness ==
    /\ variant = "service"
    /\ deliveries = 2
    /\ AwardReturned
    /\ seen.data.cart[1].customLineItems = <<[id |-> 1, slug |-> "bonus-points-earned-6"]>>
    /\ resp.actions[1] = [action |-> "removeCustomLineItem", customLineItemId |-> 1]
    /\ Len(cart.customLineItems) = 1
    /\ cart.customLineItems[1].id = 2
    /\ IsBonusLineItem(cart.customLineItems[1])

\* str holds sub as a substring
Contains(str, sub) ==
    \E i \in 1..(Len(str) - Len(sub) + 1) : SubSeq(str, i, i + Len(sub) - 1) = sub

IsAwardLineItem(a, p) ==
    /\ a.action = "addCustomLineItem"
    /\ a.money.centAmount = 0
    /\ a.quantity = 1
    /\ Contains(a.name.EN, NumberToString(p))
    /\ Contains(a.name.DE, NumberToString(p))

IsPointsField(a, p) ==
    /\ a.action = "setCustomType"
    /\ a.fields.points = p

\* C5: when the cart handler computed an award of p points, the returned list
\* is removeCustomLineItem(existing), addCustomLineItem(p), setCustomType(p)
\* in this order if the cart read holds a bonus-points line item, and the last
\* two alone if it holds none.
C5_ActionBatch ==
    AwardReturned =>
        LET p == seen.earnedPoints[1]
            existing == BonusLineItemIds(seen.data.cart[1].customLineItems)
            a == resp.actions
        IN  /\ resp.kind = "returned"
            /\ existing # {} =>
                  /\ Len(a) = 3
                  /\ a[1].action = "removeCustomLineItem"
                  /\ a[1].customLineItemId \in existing
                  /\ IsAwardLineItem(a[2], p)
                  /\ IsPointsField(a[3], p)
            /\ existing = {} =>
                  /\ Len(a) = 2
                  /\ IsAwardLineItem(a[1], p)
                  /\ IsPointsField(a[2], p)

C5_Witness ==
    /\ AwardReturned
    /\ seen.earnedPoints[1] > 0
    /\ BonusLineItemIds(seen.data.cart[1].customLineItems) # {}
    /\ Len(resp.actions) = 3
    /\ resp.actions[1].action = "removeCustomLineItem"
    /\ resp.actions[3].fields.points = seen.earnedPoints[1]

C5_WitnessNoExisting ==
    /\ AwardReturned
    /\ BonusLineItemIds(seen.data.cart[1].customLineItems) = {}
    /\ Len(resp.actions) = 2

\* the last delivery was a Create or Update whose reads all succeeded and whose
\* cart has a customer
ReadsSucceeded ==
    /\ seen.action \in {"Create", "Update"}
    /\ seen.data.cart # None
    /\ seen.data.customObjects # <<>>
    /\ cart.customerId # None
    /\ variant = "cart" =>
          /\ seen.data.customer # None
          /\ seen.data.customer[1].custom # None
          /\ seen.data.customer[1].custom[1].customFieldsRaw # <<>>

\* C6: a cart event whose cart total is 0 is answered with statusCode 201 and
\* an empty action list.
C6_ZeroTotalNoActions ==
    (ReadsSucceeded /\ seen.data.cart[1].totalPrice.centAmount = 0)
        => resp = Returned(201, <<>>)

\* The handler of service.controller.ts does guard the zero total.
C6_ServiceGuardsZero ==
    (variant = "service" /\ ReadsSucceeded /\ seen.data.cart[1].totalPrice.centAmount = 0)
        => resp = Returned(201, <<>>)

-----------------------------------------------------------------------------
(* Claims about the order handler *)

\* the custom fields a customer record holds (none without a custom type)
RawFields(c) == IF c[1].custom = None THEN <<>> ELSE c[1].custom[1].customFieldsRaw

\* the values stored under the name points
StoredPoints(c) == {RawFields(c)[i].value : i \in {j \in 1..Len(RawFields(c)) : RawFields(c)[j].name = "points"}}

WriteIndexes == 1..Len(customerWrites)

\* the update request sets the points field to n through setCustomType
WritesPoints(w, n) ==
    /\ Len(w.actions) = 1
    /\ w.actions[1].action = "setCustomType"
    /\ w.actions[1].fields.points = n

\* C7: a customer without any custom-type assignment is never written to: no
\* update request comes from a read that found no custom type.
C7_NoWriteWithoutCustomType ==
    \A i \in WriteIndexes : customerWrites[i].seenCustomer[1].custom # None

\* the invocation read a customer that has a custom type but no points field
ReadTypeWithoutPoints(h) ==
    /\ handlers[h].read
    /\ handlers[h].seenCustomer # None
    /\ handlers[h].seenCustomer[1].custom # None
    /\ StoredPoints(handlers[h].seenCustomer) = {}

\* C8 as stated: whenever the customer has a custom type but no points field,
\* the prior balance counts as 0 and the handler goes on to set the customer's
\* points to the order's points.
C8_UnsetPointsProceeds ==
    \A h \in Handlers :
        ReadTypeWithoutPoints(h) =>
            handlers[h].go /\ handlers[h].total = handlers[h].order.points[1]

\* C8 amended: with a custom type and no custom field set at all the prior
\* balance counts as 0 and the update request sets the points to the order's
\* points; with other fields set and no points field the handler returns 201
\* with an empty list and writes nothing.
C8_EmptyFieldsProceed ==
    /\ \A h \in Handlers :
          ReadTypeWithoutPoints(h) =>
              IF RawFields(handlers[h].seenCustomer) = <<>>
              THEN handlers[h].go /\ handlers[h].total = handlers[h].order.points[1]
              ELSE /\ ~handlers[h].go
                   /\ handlers[h].pc = "done"
                   /\ handlers[h].resp = Returned(201, <<>>)
    /\ \A i \in WriteIndexes :
          LET w == customerWrites[i]
          IN  /\ StoredPoints(w.seenCustomer) = {} => RawFields(w.seenCustomer) = <<>>
              /\ (w.seenCustomer[1].custom # None /\ RawFields(w.seenCustomer) = <<>>)
                     => WritesPoints(w, w.order.points[1])

C8_Witness ==
    \E h \in Handlers :
        /\ ReadTypeWithoutPoints(h)
        /\ RawFields(handlers[h].seenCustomer) = <<>>
        /\ handlers[h].pc = "done"
        /\ handlers[h].resp = Returned(201, <<>>)
        /\ customer # None
        /\ StoredPoints(customer) = {handlers[h].order.points[1]}

C8_WitnessSkipped ==
    \E h \in Handlers :
        /\ ReadTypeWithoutPoints(h)
        /\ RawFields(handlers[h].seenCustomer) # <<>>
        /\ handlers[h].pc = "done"

AcceptedIndexes == {i \in WriteIndexes : customerWrites[i].accepted}

\* C9: for an order with points e > 0 and a customer with a stored balance
\* p >= 0, the value written for the customer is e + p, a non-negative integer;
\* the customer's balance is the value of the latest accepted update request.
C9_WritesReconciledTotal ==
    /\ \A i \in WriteIndexes :
          LET w == customerWrites[i]
              e == w.order.points[1]
          IN  \A p \in StoredPoints(w.seenCustomer) :
                 (e > 0 /\ p >= 0) => (WritesPoints(w, e + p) /\ e + p \in Nat)
    /\ AcceptedIndexes # {} =>
          LET last == CHOOSE i \in AcceptedIndexes : \A j \in AcceptedIndexes : j <= i
              w == customerWrites[last]
          IN  StoredPoints(customer) = {w.actions[1].fields.points}

C9_Witness ==
    \E i \in AcceptedIndexes :
        /\ customerWrites[i].order.points[1] = 2
        /\ StoredPoints(customerWrites[i].seenCustomer) = {3}
        /\ i = Len(customerWrites)
        /\ StoredPoints(customer) = {5}

-----------------------------------------------------------------------------
(* Claims about read-time errors and no-op answers *)

\* the last delivery was a Create or Update that queried the platform and got
\* no cart, no customer (where the handler asks for one) or no tier configuration
ReadCameBackEmpty ==
    /\ seen.action \in {"Create", "Update"}
    /\ variant # "service" => cart.customerId # None
    /\ \/ seen.data.cart = None
       \/ seen.data.customObjects = <<>>
       \/ variant # "service" /\ seen.data.customer = None

\* C11: a missing cart, customer or tier configuration makes the cart handler
\* throw a typed error (CartNotFound, CustomerNotFound, RateTableNotFound) with
\* an HTTP status code; it neither returns 200/201 nor computes an award.
C11_MissingReadThrowsTyped ==
    ReadCameBackEmpty =>
        /\ resp.kind = "thrown"
        /\ resp.error \in {"CartNotFound", "CustomerNotFound", "RateTableNotFound"}
        /\ resp.statusCode \in 400..599
        /\ seen.earnedPoints = None

\* The third copy of the cart handler does throw typed 404 errors (it names the
\* missing tier configuration CustomObjectNotFound).
C11_TypedCopyThrows ==
    (variant = "typed" /\ ReadCameBackEmpty /\ seen.data.transport = "ok") =>
        /\ resp.kind = "thrown"
        /\ resp.error \in {"CartNotFound", "CustomerNotFound", "CustomObjectNotFound"}
        /\ resp.statusCode = 404
        /\ seen.earnedPoints = None

\* an order that carries no customer or no positive points
NothingToAward(order) ==
    \/ order.customerId = None
    \/ order.points = None
    \/ order.points[1] <= 0

\* C12: an order with no customerId, or whose points are missing, zero or
\* negative, is answered with statusCode 201 and an empty action list, without
\* an error and with neither the customer read nor the customer write made.
C12_NothingToAwardIsNoOp ==
    /\ \A h \in Handlers :
          (/\ handlers[h].pc # "idle"
           /\ handlers[h].action \in {"Create", "Update"}
           /\ NothingToAward(handlers[h].order)) =>
              /\ handlers[h].pc = "done"
              /\ handlers[h].resp = Returned(201, <<>>)
              /\ ~handlers[h].read
              /\ handlers[h].seenCustomer = None
    /\ \A i \in WriteIndexes : ~NothingToAward(customerWrites[i].order)

\* every kind of such an order has been answered, next to an order that was written
C12_Witness ==
    /\ \E h \in Handlers :
          /\ handlers[h].pc = "done"
          /\ handlers[h].action \in {"Create", "Update"}
          /\ NothingToAward(handlers[h].order)
          /\ handlers[h].order.customerId # None
    /\ customerWrites # <<>>

\* the order without a customer has been answered
C12_WitnessNoCustomer ==
    \E h \in Handlers :
       /\ handlers[h].pc = "done"
       /\ handlers[h].action \in {"Create", "Update"}
       /\ handlers[h].order.customerId = None
       /\ handlers[h].resp = Returned(201, <<>>)

\* the cart total and the tier table the last delivery read
SeenTotal == seen.data.cart[1].totalPrice.centAmount
SeenTable == seen.data.customObjects[1].value

\* no tier's range [minCartValue, maxCartValue] holds the total that was read
NoTierMatches ==
    \A i \in 1..Len(SeenTable) :
        ~(SeenTable[i].minCartValue <= SeenTotal /\ SeenTotal <= SeenTable[i].maxCartValue)

\* C13: when the cart total is non-zero and no tier matches it (the earned
\* points are 0), the cart handler returns an empty action list.
C13_NoTierNoActions ==
    (ReadsSucceeded /\ SeenTotal # 0 /\ NoTierMatches) => resp.actions = <<>>

\* What the handlers do return then: the award line item and the points field, for 0 points.
C13_ZeroAwardIsWritten ==
    (ReadsSucceeded /\ SeenTotal # 0 /\ NoTierMatches) =>
        /\ resp.kind = "returned"
        /\ seen.earnedPoints = Some(0)
        /\ \E i \in 1..Len(resp.actions) : IsAwardLineItem(resp.actions[i], 0)
        /\ \E i \in 1..Len(resp.actions) : IsPointsField(resp.actions[i], 0)

\* C14: the slug of the addCustomLineItem action is one fixed value, the same
\* for every number of earned points; it does not embed the point count.
C14_FixedSlug ==
    AwardReturned =>
        \A i \in 1..Len(resp.actions) :
            resp.actions[i].action = "addCustomLineItem" =>
                resp.actions[i].slug = "bonus-points-earned"

\* The handler of cart.controller.ts does write the fixed slug.
C14_CartCopyFixedSlug ==
    (variant = "cart" /\ AwardReturned) =>
        \A i \in 1..Len(resp.actions) :
            resp.actions[i].action = "addCustomLineItem" =>
                resp.actions[i].slug = "bonus-points-earned"

-----------------------------------------------------------------------------
(* Claims about overlapping and repeated order events *)

\* the customer's points balance: the stored points field, 0 without one
Balance(c) == IF StoredPoints(c) = {} THEN 0 ELSE CHOOSE v \in StoredPoints(c) : TRUE

\* the points of the orders among the first n update requests that were applied
RECURSIVE SumAccepted(_)
SumAccepted(n) ==
    IF n = 0 THEN 0
    ELSE SumAccepted(n - 1)
         + (IF customerWrites[n].accepted THEN customerWrites[n].order.points[1] ELSE 0)

\* the last update request invocation h made
LastWriteOf(h) ==
    CHOOSE i \in WriteIndexes :
        /\ customerWrites[i].handler = h
        /\ \A j \in WriteIndexes : customerWrites[j].handler = h => j <= i

\* C15: the order handler's update request carries the customer version it
\* read; as the platform rejects stale versions, at most one request per version
\* is applied, a rejected request ends the invocation with a thrown error, and
\* the balance is the initial balance plus the points of the orders whose
\* request was applied.
C15_OneWritePerVersion ==
    /\ \A i \in WriteIndexes :
          customerWrites[i].version = customerWrites[i].seenCustomer[1].version
    /\ \A i, j \in AcceptedIndexes :
          i # j => customerWrites[i].version # customerWrites[j].version
    /\ \A h \in Handlers :
          (handlers[h].pc = "done" /\ handlers[h].go) =>
              IF customerWrites[LastWriteOf(h)].accepted
              THEN handlers[h].resp.kind = "returned"
              ELSE handlers[h].resp.kind = "thrown"
    /\ customerWrites # <<>> =>
          Balance(customer) = Balance(customerWrites[1].before) + SumAccepted(Len(customerWrites))

\* two invocations read the same version; one request was applied, the other
\* rejected and its invocation ended with the error
C15_Witness ==
    \E i, j \in WriteIndexes :
       /\ customerWrites[i].version = customerWrites[j].version
       /\ customerWrites[i].accepted
       /\ ~customerWrites[j].accepted
       /\ handlers[customerWrites[j].handler].pc = "done"
       /\ handlers[customerWrites[j].handler].resp.kind = "thrown"
       /\ Balance(customer) = Balance(customerWrites[1].before) + customerWrites[i].order.points[1]

\* the customer record holds a points field
OptedIn(c) == c # None /\ StoredPoints(c) # {}

\* C16: the order handler treats Create and Update alike and keeps no record of
\* the orders it has handled: for an opted-in customer and an order with e > 0
\* points every delivered event adds e, so after n sequential deliveries of the
\* order the balance has grown by n * e.
C16_EveryDeliveryAdds ==
    /\ [][\A h \in Handlers :
            (/\ orderEvents' = orderEvents + 1
             /\ handlers'[h] # handlers[h]
             /\ handlers'[h].action \in {"Create", "Update"}
             /\ ~NothingToAward(handlers'[h].order)
             /\ OptedIn(customer)) =>
                /\ handlers'[h].go
                /\ handlers'[h].total = Balance(customer) + handlers'[h].order.points[1]]_vars
    /\ [](  (/\ customerWrites # <<>>
             /\ OptedIn(customerWrites[1].before)
             /\ \A i \in WriteIndexes :
                   /\ customerWrites[i].accepted
                   /\ customerWrites[i].order = customerWrites[1].order) =>
                Balance(customer) = Balance(customerWrites[1].before)
                                      + Len(customerWrites) * customerWrites[1].order.points[1])

\* the same order was delivered as Create and then as Update, one delivery
\* after the other, and the balance grew by twice its points
C16_Witness ==
    /\ Len(customerWrites) >= 2
    /\ OptedIn(customerWrites[1].before)
    /\ customerWrites[1].order = customerWrites[2].order
    /\ customerWrites[1].action = "Create"
    /\ customerWrites[2].action = "Update"
    /\ customerWrites[1].accepted
    /\ customerWrites[2].accepted
    /\ customerWrites[2].seenCustomer = customerWrites[2].before
    /\ Balance(customer) = Balance(customerWrites[1].before) + 2 * customerWrites[1].order.points[1]
====
